---- MODULE Spec2Model ----
(***************************************************************************)
(* FarmChain service (src/app.py, src/models.py): the permission-checking  *)
(* decorator, the six protected handlers and the two tables they persist   *)
(* to, as a state machine over the store and the exchanges the service     *)
(* completes.                                                              *)
(***************************************************************************)
EXTENDS Integers, Sequences, FiniteSets, TLC

VARIABLES
    records,    \* table traceability_records, rows in insertion order (id = index)
    contracts,  \* table contracts, rows in insertion order (id = index)
    inflight,   \* a create request of another worker thread, between session.add and commit
    last,       \* the exchange just completed, until its response is delivered
    created     \* history: what the 201 responses of create-record have announced

vars == <<records, contracts, inflight, last, created>>

-----------------------------------------------------------------------------
(* Bounds and input domains *)

\* time.time() answers one of 1..MaxTime
MaxTime == 2

Times == 1..MaxTime

\* the values uuid.uuid4() may answer; two, so that collisions happen
Uuids == {"u1", "u2"}

Ops == {"create_record", "get_record", "create_contract", "update_status",
        "lock_payment", "release_payment"}

Permissions == {"CREATE_RECORD", "VIEW_RECORD", "CREATE_CONTRACT", "UPDATE_CONTRACT",
                "LOCK_PAYMENT", "RELEASE_PAYMENT"}

\* the permission each handler is decorated with
RequiredPermission(op) ==
    CASE op = "create_record"   -> "CREATE_RECORD"
      [] op = "get_record"      -> "VIEW_RECORD"
      [] op = "create_contract" -> "CREATE_CONTRACT"
      [] op = "update_status"   -> "UPDATE_CONTRACT"
      [] op = "lock_payment"    -> "LOCK_PAYMENT"
      [] op = "release_payment" -> "RELEASE_PAYMENT"

\* request.headers.get("Authorization", None): absent, empty, or a bearer token
NoHeader == "<absent>"
Headers == {NoHeader, "", "Bearer t"}

\* What requests.post to the auth service can end in: an exception of the
\* call, or a response with a status code and a body. A body is text that is
\* not JSON, a JSON array, or a JSON object; an object has no "permissions"
\* key, a null under it, or a list of permission names.
\* The lists the auth service answers with: none, the permissions of a
\* traceability user, the permissions of a contract user.
PermLists ==
    {{},
     {"CREATE_RECORD", "VIEW_RECORD"},
     {"CREATE_CONTRACT", "UPDATE_CONTRACT", "LOCK_PAYMENT", "RELEASE_PAYMENT"}}

AuthReplies ==
    {[kind |-> "timeout"], [kind |-> "connection_error"]}
    \cup {[kind |-> "response", code |-> 401, body |-> "not_json"]}
    \cup {[kind |-> "response", code |-> 200, body |-> b] :
            b \in {"not_json", "array", "object_no_permissions", "object_null_permissions"}}
    \cup {[kind |-> "response", code |-> 200, body |-> "object", permissions |-> ps] :
            ps \in PermLists}

\* no call was made
NoReply == [kind |-> "none"]

-----------------------------------------------------------------------------
(* Authorization: validate_token and the has_permission wrapper *)

\* validate_token testing `token is None` where the code tests `not token`
validate_token_none_only(header, reply) ==
    IF header = NoHeader
    THEN [is_valid |-> FALSE, called |-> FALSE, claims |-> NoReply]
    ELSE IF reply.kind # "response" \/ reply.code # 200 \/ reply.body = "not_json"
    THEN [is_valid |-> FALSE, called |-> TRUE, claims |-> NoReply]
    ELSE [is_valid |-> TRUE, called |-> TRUE, claims |-> reply]

\* validate_token: (is_valid, claims or message), and whether the auth service
\* was called. response.json() raises on text that is not JSON, and the except
\* clause catches that as it catches the exceptions of requests.post.
validate_token(header, reply) ==
    IF header = NoHeader \/ header = ""
    THEN [is_valid |-> FALSE, called |-> FALSE, claims |-> NoReply]
    ELSE IF reply.kind # "response"
    THEN [is_valid |-> FALSE, called |-> TRUE, claims |-> NoReply]
    ELSE IF reply.code # 200
    THEN [is_valid |-> FALSE, called |-> TRUE, claims |-> NoReply]
    ELSE IF reply.body = "not_json"
    THEN [is_valid |-> FALSE, called |-> TRUE, claims |-> NoReply]
    ELSE [is_valid |-> TRUE, called |-> TRUE, claims |-> reply]

\* the wrapper without its permission test: a valid token is enough
wrapper_no_permission_check(required_permission, header, reply) ==
    LET v == validate_token(header, reply) IN
    IF ~v.is_valid THEN [outcome |-> 401, called |-> v.called]
    ELSE IF v.claims.body \in {"array", "object_null_permissions"}
    THEN [outcome |-> 500, called |-> TRUE]
    ELSE [outcome |-> 200, called |-> TRUE]

\* has_permission.wrapper up to the call of f: 401, 403, 200 for calling f, or 500 when
\* user_or_error.get raises AttributeError (the claims are no object) or the
\* `in` test raises TypeError (permissions is null): neither is caught.
wrapper(required_permission, header, reply) ==
    LET v == validate_token(header, reply) IN
    IF ~v.is_valid THEN [outcome |-> 401, called |-> v.called]
    ELSE IF v.claims.body = "array" THEN [outcome |-> 500, called |-> TRUE]
    ELSE IF v.claims.body = "object_null_permissions" THEN [outcome |-> 500, called |-> TRUE]
    ELSE LET user_permissions == IF v.claims.body = "object_no_permissions"
                                 THEN {} ELSE v.claims.permissions
         IN IF required_permission \notin user_permissions
            THEN [outcome |-> 403, called |-> TRUE]
            ELSE [outcome |-> 200, called |-> TRUE]

-----------------------------------------------------------------------------
(* Request bodies: JSON objects, as functions from the keys present *)

Drop(body, k) == [f \in DOMAIN body \ {k} |-> body[f]]
Blank(body, k) == [body EXCEPT ![k] = ""]
EmptyBody == [f \in {} |-> ""]

RecordFields == {"product_id", "farmer_id", "aggregation_center_id"}
FullRecordBody == [product_id |-> "P1", farmer_id |-> "F1", aggregation_center_id |-> "A1"]
RecordBodies ==
    {FullRecordBody, EmptyBody}
    \cup {Drop(FullRecordBody, k) : k \in RecordFields}
    \cup {Blank(FullRecordBody, k) : k \in RecordFields}

ContractStrings == {"buyer_id", "seller_id", "product_id", "delivery_date"}
FullContractBody(price) ==
    [buyer_id |-> "B1", seller_id |-> "S1", product_id |-> "P1",
     agreed_price |-> price, delivery_date |-> "2025-01-01"]
Prices == {-1, 0, 1}
ContractBodies ==
    {FullContractBody(p) : p \in Prices}
    \cup {Drop(FullContractBody(1), k) : k \in ContractStrings \cup {"agreed_price"}}
    \cup {Blank(FullContractBody(1), k) : k \in ContractStrings}

Statuses == {"Pending", "Completed", "Cancelled"}
StatusBodies == {EmptyBody} \cup {[status |-> s] : s \in Statuses \cup {"Shipped", ""}}

FullPaymentBody(amount) == [product_id |-> "P1", retailer_id |-> "R1", amount |-> amount]
PaymentBodies ==
    {FullPaymentBody(1), FullPaymentBody(0),
     Drop(FullPaymentBody(1), "product_id"), Blank(FullPaymentBody(1), "retailer_id")}

\* data.get(k): the value under k, None when the key is absent
None == "<None>"
Get(data, k) == IF k \in DOMAIN data THEN data[k] ELSE None

\* `not data.get(k)` for a string-valued key: the key is absent or holds ""
FalsyString(data, k) == k \notin DOMAIN data \/ data[k] = ""
\* `not data.get(k)` for a number-valued key: the key is absent or holds 0
FalsyNumber(data, k) == k \notin DOMAIN data \/ data[k] = 0

-----------------------------------------------------------------------------
(* Persistence: the two tables of models.py *)

\* the indices of the rows of a table holding val under key
Matching(table, key, val) == {i \in 1..Len(table) : table[i][key] = val}

\* query.filter_by(key=val).first(): the index of the first such row, 0 for None
first(table, key, val) ==
    LET I == Matching(table, key, val)
    IN IF I = {} THEN 0 ELSE CHOOSE i \in I : \A j \in I : i <= j

\* the INSERT into a table whose key column is not declared unique
commit_insert_no_unique(table, key, row) ==
    [ok |-> TRUE, table |-> Append(table, row)]

\* session.add(row); session.commit() on a table whose column `key` is declared
\* unique=True: the INSERT of a row whose key is taken raises IntegrityError
\* and the table is left as it was.
commit_insert(table, key, row) ==
    IF Matching(table, key, row[key]) # {}
    THEN [ok |-> FALSE, table |-> table]
    ELSE [ok |-> TRUE, table |-> Append(table, row)]

\* the constructor call with product_id and farmer_id exchanged
TraceabilityRecord_swapped(traceability_hash, product_id, farmer_id, aggregation_center_id, timestamp) ==
    [traceability_hash |-> traceability_hash,
     product_id |-> farmer_id,
     farmer_id |-> product_id,
     aggregation_center_id |-> aggregation_center_id,
     timestamp |-> timestamp]

\* the row TraceabilityRecord(...) makes of its keyword arguments
TraceabilityRecord(traceability_hash, product_id, farmer_id, aggregation_center_id, timestamp) ==
    [traceability_hash |-> traceability_hash,
     product_id |-> product_id,
     farmer_id |-> farmer_id,
     aggregation_center_id |-> aggregation_center_id,
     timestamp |-> timestamp]

\* the row of a Contract whose status column has no default
Contract_no_default(contract_id, buyer_id, seller_id, product_id, agreed_price, delivery_date) ==
    [contract_id |-> contract_id,
     buyer_id |-> buyer_id,
     seller_id |-> seller_id,
     product_id |-> product_id,
     agreed_price |-> agreed_price,
     delivery_date |-> delivery_date,
     status |-> None]

\* the row Contract(...) makes of its keyword arguments; status is not among
\* them and takes the column's default
Contract(contract_id, buyer_id, seller_id, product_id, agreed_price, delivery_date) ==
    [contract_id |-> contract_id,
     buyer_id |-> buyer_id,
     seller_id |-> seller_id,
     product_id |-> product_id,
     agreed_price |-> agreed_price,
     delivery_date |-> delivery_date,
     status |-> "Pending"]

-----------------------------------------------------------------------------
(* The handler bodies, as functions of what they read *)

Message(text) == [message |-> text]

\* the field test with `and` where the code has `or`
post_record_and(data, traceability_hash, timestamp) ==
    IF FalsyString(data, "product_id") /\ FalsyString(data, "farmer_id")
       /\ FalsyString(data, "aggregation_center_id")
    THEN [status |-> 400, resp |-> Message("Missing required fields")]
    ELSE [status |-> 201,
          resp |-> [traceability_hash |-> traceability_hash, timestamp |-> timestamp],
          row |-> TraceabilityRecord(traceability_hash, Get(data, "product_id"),
                                     Get(data, "farmer_id"),
                                     Get(data, "aggregation_center_id"), timestamp)]

\* TraceabilityResource.post up to session.add
post_record(data, traceability_hash, timestamp) ==
    IF FalsyString(data, "product_id") \/ FalsyString(data, "farmer_id")
       \/ FalsyString(data, "aggregation_center_id")
    THEN [status |-> 400, resp |-> Message("Missing required fields")]
    ELSE [status |-> 201,
          resp |-> [traceability_hash |-> traceability_hash, timestamp |-> timestamp],
          row |-> TraceabilityRecord(traceability_hash, Get(data, "product_id"),
                                     Get(data, "farmer_id"),
                                     Get(data, "aggregation_center_id"), timestamp)]

\* TraceabilityDetailResource.get
get_record(table, traceability_hash) ==
    LET i == first(table, "traceability_hash", traceability_hash)
    IN IF i = 0
       THEN [status |-> 404, resp |-> Message("Traceability record not found")]
       ELSE [status |-> 200,
             resp |-> [product_id |-> table[i].product_id,
                       farmer_id |-> table[i].farmer_id,
                       aggregation_center_id |-> table[i].aggregation_center_id,
                       timestamp |-> table[i].timestamp]]

\* SmartContractResource.post up to session.add
post_contract(data, contract_id) ==
    IF FalsyString(data, "buyer_id") \/ FalsyString(data, "seller_id")
       \/ FalsyString(data, "product_id") \/ FalsyNumber(data, "agreed_price")
       \/ FalsyString(data, "delivery_date")
    THEN [status |-> 400, resp |-> Message("Missing required fields")]
    ELSE [status |-> 201,
          resp |-> [contract_id |-> contract_id, status |-> "Pending"],
          row |-> Contract(contract_id, Get(data, "buyer_id"), Get(data, "seller_id"),
                           Get(data, "product_id"), Get(data, "agreed_price"),
                           Get(data, "delivery_date"))]

\* patch without the test of the requested status
patch_contract_unvalidated(table, contract_id, data) ==
    LET i == first(table, "contract_id", contract_id)
    IN IF i = 0
       THEN [status |-> 404, resp |-> Message("Contract not found"), table |-> table]
       ELSE [status |-> 200,
             resp |-> [contract_id |-> contract_id, status |-> Get(data, "status")],
             table |-> [table EXCEPT ![i].status = Get(data, "status")]]

\* SmartContractDetailResource.patch, commit included: the table it leaves
patch_contract(table, contract_id, data) ==
    LET i == first(table, "contract_id", contract_id)
    IN IF i = 0
       THEN [status |-> 404, resp |-> Message("Contract not found"), table |-> table]
       ELSE IF Get(data, "status") \notin Statuses
       THEN [status |-> 400, resp |-> Message("Invalid status"), table |-> table]
       ELSE [status |-> 200,
             resp |-> [contract_id |-> contract_id, status |-> Get(data, "status")],
             table |-> [table EXCEPT ![i].status = Get(data, "status")]]

\* LockPaymentResource.post
lock_payment(data, contract_id) ==
    IF FalsyString(data, "product_id") \/ FalsyString(data, "retailer_id")
       \/ FalsyNumber(data, "amount")
    THEN [status |-> 400, resp |-> Message("Missing required fields")]
    ELSE [status |-> 201, resp |-> [contract_id |-> contract_id, status |-> "Payment Locked"]]

\* ReleasePaymentResource.post
release_payment(data) ==
    IF FalsyString(data, "product_id") \/ FalsyString(data, "retailer_id")
       \/ FalsyNumber(data, "amount")
    THEN [status |-> 400, resp |-> Message("Missing required fields")]
    ELSE [status |-> 201, resp |-> [status |-> "Payment Released"]]

-----------------------------------------------------------------------------
(* The state machine *)

\* the body of a request the wrapper turned away: the handler never read it
Unread == [unread |-> TRUE]
NoUrl == ""
NoInflight == [none |-> TRUE]
NoExchange ==
    [op |-> "none", header |-> NoHeader, reply |-> NoReply, body |-> Unread, url |-> NoUrl,
     status |-> 0, resp |-> Message(""), called |-> FALSE, mutated |-> FALSE,
     conflict |-> FALSE]

Init ==
    /\ records = << >>
    /\ contracts = << >>
    /\ inflight = NoInflight
    /\ last = NoExchange
    /\ created = {}

\* what a create-record exchange that answered 201 told its caller
Announced(req, resp) ==
    [traceability_hash |-> resp.traceability_hash,
     product_id |-> Get(req.body, "product_id"),
     farmer_id |-> Get(req.body, "farmer_id"),
     aggregation_center_id |-> Get(req.body, "aggregation_center_id"),
     timestamp |-> resp.timestamp]

\* The response leaves: the tables are as the request left them and the
\* exchange is the last one completed.
Finish(req, status, resp, recs, cons, conflict) ==
    /\ records' = recs
    /\ contracts' = cons
    /\ last' = [op |-> req.op, header |-> req.header, reply |-> req.reply,
                body |-> req.body, url |-> req.url, status |-> status, resp |-> resp,
                called |-> req.reply # NoReply,
                mutated |-> (recs # records \/ cons # contracts),
                conflict |-> conflict]
    /\ created' = IF req.op = "create_record" /\ status = 201
                  THEN created \cup {Announced(req, resp)}
                  ELSE created

\* db.session.commit() of a create: the INSERT, and the 201 of the handler or
\* the IntegrityError that nothing catches (500)
Commit(req, r) ==
    IF req.op = "create_record"
    THEN LET c == commit_insert(records, "traceability_hash", r.row)
         IN IF c.ok THEN Finish(req, r.status, r.resp, c.table, contracts, FALSE)
            ELSE Finish(req, 500, Message("Internal Server Error"), records, contracts, TRUE)
    ELSE LET c == commit_insert(contracts, "contract_id", r.row)
         IN IF c.ok THEN Finish(req, r.status, r.resp, records, c.table, FALSE)
            ELSE Finish(req, 500, Message("Internal Server Error"), records, contracts, TRUE)

\* A create handler after session.add. Two creates may be under way at once:
\* when no other create is suspended before its commit, this one is, and its
\* commit is a later step (CommitInflight); otherwise it commits at once.
AddAndCommit(req, r) ==
    IF inflight = NoInflight
    THEN /\ inflight' = [req |-> req, result |-> r]
         /\ UNCHANGED <<records, contracts, last, created>>
    ELSE /\ Commit(req, r)
         /\ UNCHANGED inflight

\* The wrapper turned the request away (401, 403) or failed (500): the handler,
\* which reads the path parameter and the body, did not run
Reject(op, header, reply, w) ==
    /\ Finish([op |-> op, header |-> header,
               reply |-> IF w.called THEN reply ELSE NoReply,
               body |-> Unread, url |-> NoUrl],
              w.outcome,
              Message(CASE w.outcome = 401 -> "Unauthorized"
                        [] w.outcome = 403 -> "Access denied: insufficient permission"
                        [] OTHER -> "Internal Server Error"),
              records, contracts, FALSE)
    /\ UNCHANGED inflight

Request(op, header, reply, body, url) ==
    [op |-> op, header |-> header, reply |-> reply, body |-> body, url |-> url]

\* POST /traceability/
CreateRecord ==
    /\ last = NoExchange
    /\ \E header \in Headers, reply \in AuthReplies :
         LET w == wrapper(RequiredPermission("create_record"), header, reply) IN
         IF w.outcome # 200 THEN Reject("create_record", header, reply, w)
         ELSE \E data \in RecordBodies, h \in Uuids, t \in Times :
                LET req == Request("create_record", header, reply, data, NoUrl)
                    r == post_record(data, h, t)
                IN IF r.status # 201
                   THEN Finish(req, r.status, r.resp, records, contracts, FALSE)
                        /\ UNCHANGED inflight
                   ELSE AddAndCommit(req, r)

\* GET /traceability/<traceability_hash>
GetRecord ==
    /\ last = NoExchange
    /\ \E header \in Headers, reply \in AuthReplies, h \in Uuids :
         LET w == wrapper(RequiredPermission("get_record"), header, reply) IN
         IF w.outcome # 200 THEN Reject("get_record", header, reply, w)
         ELSE LET r == get_record(records, h)
              IN /\ Finish(Request("get_record", header, reply, Unread, h),
                           r.status, r.resp, records, contracts, FALSE)
                 /\ UNCHANGED inflight

\* POST /smart-contract/
CreateContract ==
    /\ last = NoExchange
    /\ \E header \in Headers, reply \in AuthReplies :
         LET w == wrapper(RequiredPermission("create_contract"), header, reply) IN
         IF w.outcome # 200 THEN Reject("create_contract", header, reply, w)
         ELSE \E data \in ContractBodies, id \in Uuids :
                LET req == Request("create_contract", header, reply, data, NoUrl)
                    r == post_contract(data, id)
                IN IF r.status # 201
                   THEN Finish(req, r.status, r.resp, records, contracts, FALSE)
                        /\ UNCHANGED inflight
                   ELSE AddAndCommit(req, r)

\* PATCH /smart-contract/<contract_id>
UpdateStatus ==
    /\ last = NoExchange
    /\ \E header \in Headers, reply \in AuthReplies, id \in Uuids :
         LET w == wrapper(RequiredPermission("update_status"), header, reply) IN
         IF w.outcome # 200 THEN Reject("update_status", header, reply, w)
         ELSE \E data \in StatusBodies :
                LET r == patch_contract(contracts, id, data)
                IN /\ Finish(Request("update_status", header, reply, data, id),
                             r.status, r.resp, records, r.table, FALSE)
                   /\ UNCHANGED inflight

\* POST /smart-contract/lock-payment
LockPayment ==
    /\ last = NoExchange
    /\ \E header \in Headers, reply \in AuthReplies :
         LET w == wrapper(RequiredPermission("lock_payment"), header, reply) IN
         IF w.outcome # 200 THEN Reject("lock_payment", header, reply, w)
         ELSE \E data \in PaymentBodies, id \in Uuids :
                LET r == lock_payment(data, id)
                IN /\ Finish(Request("lock_payment", header, reply, data, NoUrl),
                             r.status, r.resp, records, contracts, FALSE)
                   /\ UNCHANGED inflight

\* POST /smart-contract/release-payment
ReleasePayment ==
    /\ last = NoExchange
    /\ \E header \in Headers, reply \in AuthReplies :
         LET w == wrapper(RequiredPermission("release_payment"), header, reply) IN
         IF w.outcome # 200 THEN Reject("release_payment", header, reply, w)
         ELSE \E data \in PaymentBodies :
                LET r == release_payment(data)
                IN /\ Finish(Request("release_payment", header, reply, data, NoUrl),
                             r.status, r.resp, records, contracts, FALSE)
                   /\ UNCHANGED inflight

\* the suspended create commits
CommitInflight ==
    /\ last = NoExchange
    /\ inflight # NoInflight
    /\ Commit(inflight.req, inflight.result)
    /\ inflight' = NoInflight

\* the response of the completed exchange is delivered to its caller
Deliver ==
    /\ last # NoExchange
    /\ last' = NoExchange
    /\ UNCHANGED <<records, contracts, inflight, created>>

Next ==
    \/ Deliver
    \/ CreateRecord
    \/ GetRecord
    \/ CreateContract
    \/ UpdateStatus
    \/ LockPayment
    \/ ReleasePayment
    \/ CommitInflight

Spec == Init /\ [][Next]_vars

-----------------------------------------------------------------------------
(* Properties *)

\* the exchange just completed is a request to one of the six operations
Completed == last.op \in Ops

\* the wrapper let the request through and the handler read the request body
BodyRead == Completed /\ last.body # Unread

\* the exchange used the tables and left them as they were
Untouched == ~last.mutated /\ ~last.conflict

\* The auth service accepted the token (200 and a claims object) and the
\* claims lack the permission the operation requires.
AcceptedLacking ==
    /\ last.reply.kind = "response"
    /\ last.reply.code = 200
    /\ \/ last.reply.body = "object_no_permissions"
       \/ /\ last.reply.body = "object"
          /\ RequiredPermission(last.op) \notin last.reply.permissions

\* C1: a request to any of the six operations whose token the auth service
\* accepts, with claims lacking the operation's permission, is answered 403;
\* its body is never read and both tables are after it as before it.
C1_ForbiddenLeavesStore ==
    (Completed /\ AcceptedLacking) =>
        /\ last.status = 403
        /\ last.body = Unread
        /\ ~last.mutated

C1_Witness ==
    /\ last.op = "update_status"
    /\ AcceptedLacking
    /\ last.reply.body = "object"
    /\ last.status = 403
    /\ Len(contracts) = 2
    /\ Len(records) = 1

\* C2: a request to any of the six operations with no Authorization header, or
\* an empty one, is answered 401 with no call of the auth service; the handler
\* does not run and the tables are not touched.
C2_NoHeaderNoCall ==
    (Completed /\ last.header \in {NoHeader, ""}) =>
        /\ last.status = 401
        /\ ~last.called
        /\ last.body = Unread
        /\ ~last.mutated

C2_Witness ==
    /\ last.op = "create_contract"
    /\ last.header = ""
    /\ last.status = 401
    /\ ~last.called

\* the validation call failed: an exception, a status other than 200, or a
\* body that is no claims object with a permissions list
ValidationFailed ==
    /\ last.called
    /\ \/ last.reply.kind \in {"timeout", "connection_error"}
       \/ /\ last.reply.kind = "response"
          /\ (last.reply.code # 200 \/ last.reply.body # "object")

\* C3: whenever the validation call fails (timeout, connection error, status
\* other than 200, malformed body), the request ends with 401, and the handler
\* and the tables are not reached.
C3_ValidationFailureIs401 ==
    (Completed /\ ValidationFailed) =>
        /\ last.status = 401
        /\ last.body = Unread
        /\ ~last.mutated

\* one of the three required fields of a create-record body is missing or empty
RecordFieldMissing(data) ==
    \E k \in RecordFields : FalsyString(data, k)

\* C4: an authorized create-record whose body lacks product_id, farmer_id or
\* aggregation_center_id (absent or empty) is answered 400 and leaves the
\* traceability table, and so its count, unchanged; no such request reaches
\* session.add.
C4_MissingFieldIs400 ==
    /\ (last.op = "create_record" /\ BodyRead /\ RecordFieldMissing(last.body)) =>
          (last.status = 400 /\ Untouched)
    /\ (inflight # NoInflight /\ inflight.req.op = "create_record") =>
          ~RecordFieldMissing(inflight.req.body)

C4_Witness ==
    /\ last.op = "create_record"
    /\ BodyRead
    /\ last.body = Drop(FullRecordBody, "farmer_id")
    /\ last.status = 400
    /\ Len(records) = 1

\* C5: an authorized update-status on an existing contract with a status that
\* is not Pending, Completed or Cancelled (or with none) is answered 400 and
\* leaves the contract, its status included, as it was.
C5_InvalidStatusIs400 ==
    (/\ last.op = "update_status"
     /\ BodyRead
     /\ first(contracts, "contract_id", last.url) # 0
     /\ Get(last.body, "status") \notin Statuses) =>
        (last.status = 400 /\ Untouched)

C5_Witness ==
    /\ last.op = "update_status"
    /\ BodyRead
    /\ last.body = [status |-> "Shipped"]
    /\ last.status = 400
    /\ first(contracts, "contract_id", last.url) # 0
    /\ contracts[first(contracts, "contract_id", last.url)].status = "Completed"

\* the row a 201 of create-record announced: its hash and timestamp from the
\* response, its fields from the request
RowOf(c) ==
    [traceability_hash |-> c.traceability_hash, product_id |-> c.product_id,
     farmer_id |-> c.farmer_id, aggregation_center_id |-> c.aggregation_center_id,
     timestamp |-> c.timestamp]

\* C6: once a create-record has answered 201 with hash h and timestamp t, the
\* table holds a row of h with the fields of the request and timestamp t ever
\* after, whatever else the service does, and every authorized get of h is
\* answered 200 with those fields and t.
C6_RoundTrip ==
    \A c \in created :
        /\ \E i \in 1..Len(records) : records[i] = RowOf(c)
        /\ (last.op = "get_record" /\ last.url = c.traceability_hash) =>
              /\ last.status = 200
              /\ last.resp = [product_id |-> c.product_id, farmer_id |-> c.farmer_id,
                              aggregation_center_id |-> c.aggregation_center_id,
                              timestamp |-> c.timestamp]

C6_Witness ==
    /\ Cardinality(created) = 2
    /\ last.op = "get_record"
    /\ last.status = 200
    /\ last.url = records[1].traceability_hash
    /\ last.resp.timestamp = MaxTime
    /\ Len(contracts) > 0
    /\ contracts[1].status = "Cancelled"

\* no two rows of the table share the value under key
UniqueKey(table, key) ==
    \A i, j \in 1..Len(table) : table[i][key] = table[j][key] => i = j

\* C7: in every state, creates that overlap included, no two traceability
\* records share a traceability_hash and no two contracts a contract_id, and a
\* create that answers 201 returns an identifier that exactly one row holds.
C7_UniqueIdentifiers ==
    /\ UniqueKey(records, "traceability_hash")
    /\ UniqueKey(contracts, "contract_id")
    /\ (last.op = "create_record" /\ last.status = 201) =>
          Cardinality(Matching(records, "traceability_hash",
                               last.resp.traceability_hash)) = 1
    /\ (last.op = "create_contract" /\ last.status = 201) =>
          Cardinality(Matching(contracts, "contract_id", last.resp.contract_id)) = 1

\* a create is suspended before its commit and another create has meanwhile
\* committed a row with the identifier it generated
C7_Witness ==
    /\ inflight # NoInflight
    /\ inflight.req.op = "create_record"
    /\ Matching(records, "traceability_hash",
                inflight.result.row.traceability_hash) # {}
    /\ Len(records) = 2
    /\ Len(contracts) = 2

\* C8: every stored contract's status is Pending, Completed or Cancelled; a
\* contract is stored as Pending, and a stored status changes only in a step
\* that completes an update-status of that contract with 200.
C8_StatusEnumerated ==
    /\ [](\A i \in 1..Len(contracts) : contracts[i].status \in Statuses)
    /\ [][/\ Len(contracts') >= Len(contracts)
          /\ \A i \in 1..Len(contracts') :
                IF i > Len(contracts)
                THEN contracts'[i].status = "Pending"
                ELSE contracts'[i].status # contracts[i].status =>
                        /\ last'.op = "update_status"
                        /\ last'.status = 200
                        /\ last'.url = contracts[i].contract_id]_vars

C8_Witness ==
    /\ Len(contracts) = 2
    /\ contracts[1].status = "Completed"
    /\ contracts[2].status = "Pending"
    /\ last.op = "update_status"
    /\ last.status = 200
    /\ last.mutated

\* a create-contract body with every required key present and non-empty and a
\* price that is zero or more
NonNegativeOffer(data) ==
    /\ \A k \in ContractStrings : ~FalsyString(data, k)
    /\ "agreed_price" \in DOMAIN data
    /\ data.agreed_price >= 0

\* C9: no stored contract has an agreed_price below zero, and an authorized
\* create-contract with all required fields and a price of zero or more is
\* accepted with 201 (unless its identifier is taken).
C9_NonNegativePrice ==
    /\ \A i \in 1..Len(contracts) : contracts[i].agreed_price >= 0
    /\ (last.op = "create_contract" /\ BodyRead /\ NonNegativeOffer(last.body)
        /\ ~last.conflict) => last.status = 201

\* C10: a create whose generated identifier is already in the table stores no
\* second row and ends as a handled conflict: 201 after regenerating the
\* identifier, or 409.
C10_ConflictHandled ==
    last.conflict =>
        /\ last.status \in {201, 409}
        /\ UniqueKey(records, "traceability_hash")
        /\ UniqueKey(contracts, "contract_id")

====
